---- MODULE Spec2Model ----
(***************************************************************************)
(* Demo Shop: the cart store (CartProvider of context/CartContext.js), the *)
(* routes of App.js and the pages behind them: Shop, Cart, CoffeeBuilder   *)
(* and Admin.                                                              *)
(*                                                                         *)
(* JavaScript arrays are 0-based; the operators below take the 0-based     *)
(* index the code takes and address the TLA+ sequence at index + 1.        *)
(* Prices are amounts in cents, so that price * quantity is exact integer  *)
(* arithmetic.                                                             *)
(***************************************************************************)
EXTENDS Integers, Sequences, FiniteSets

VARIABLES cart, crashed, last, run, page, showCheckout, toast, requests, timers,
          storage, pending, reloaded, builder, now, shop, admin

vars == <<cart, crashed, last, run, page, showCheckout, toast, requests, timers,
          storage, pending, reloaded, builder, now, shop, admin>>

(***************************************************************************)
(* Bounds of the exploration.                                              *)
(***************************************************************************)
\* longest cart explored
MaxCartLen == 2

\* largest quantity argument handed to addToCart / updateQuantity
MaxQty == 2

\* largest quantity a single entry may accumulate
MaxItemQty == MaxQty + 1

\* order requests and clear timers pending at the same time
MaxInFlight == 2

\* the values Date.now() takes during a session
MaxClock == 2

\* requests and timers that pages which have left the screen left behind
MaxAbandoned == 1

\* add-ons chosen in the coffee builder while the whole application is
\* explored
MaxAddOns == 1

\* presses of Save one Admin page takes between its mount and its unmount
MaxSaves == 3

(***************************************************************************)
(* Values.                                                                 *)
(***************************************************************************)
\* customCoffee = null (the default argument)
Null == [type |-> "null"]

\* customCoffee = {} : an options object with no selections
EmptyObj == [type |-> "object", size |-> 0]

\* a coffee configuration { sugar, milk, coffee, chocolate }
CoffeeConfig ==
    [type |-> "object", size |-> 4,
     sugar |-> 2, milk |-> "oat", coffee |-> 2, chocolate |-> 1]

Customizations == {Null, EmptyObj, CoffeeConfig}

\* customCoffee is undefined: the key is missing from the object
Undefined == [type |-> "undefined"]

\* JavaScript truthiness of a customCoffee value: null and undefined are
\* falsy, every object (the empty one included) is truthy
Truthy(v) == v \notin {Null, Undefined}

\* catalog products handed to addToCart (price in cents)
Products ==
    { [_id |-> "1", name |-> "Espresso", price |-> 399],
      [_id |-> "2", name |-> "Croissant", price |-> 299] }

ProductIds == {p._id : p \in Products}

\* a cart entry: { ...product, quantity, customCoffee }
CartItem(product, quantity, customCoffee) ==
    [_id |-> product._id, name |-> product.name, price |-> product.price,
     quantity |-> quantity, customCoffee |-> customCoffee]

(***************************************************************************)
(* CartProvider: the state updaters.                                       *)
(***************************************************************************)
RECURSIVE findIndexFrom(_, _, _)
findIndexFrom(prevCart, product, k) ==
    IF k > Len(prevCart) THEN -1
    ELSE IF prevCart[k]._id = product._id /\ ~Truthy(prevCart[k].customCoffee)
         THEN k - 1
         ELSE findIndexFrom(prevCart, product, k + 1)

\* findIndex with the negation of item.customCoffee dropped
findIndex_NoNegation(prevCart, product) ==
    LET hits == {k \in 1..Len(prevCart) :
                    prevCart[k]._id = product._id /\ Truthy(prevCart[k].customCoffee)}
    IN IF hits = {} THEN -1
       ELSE (CHOOSE k \in hits : \A j \in hits : k <= j) - 1

\* prevCart.findIndex(item => item._id === product._id && !item.customCoffee)
findIndex(prevCart, product) == findIndexFrom(prevCart, product, 1)

\* addToCart that never merges
addToCartUpdater_AlwaysAppend(prevCart, product, quantity, customCoffee) ==
    Append(prevCart, CartItem(product, quantity, customCoffee))

\* addToCart with the test of customCoffee dropped from the merge condition
addToCartUpdater_MergeCustom(prevCart, product, quantity, customCoffee) ==
    LET existingItemIndex == findIndex(prevCart, product)
    IN IF existingItemIndex > -1
       THEN [prevCart EXCEPT ![existingItemIndex + 1].quantity = @ + quantity]
       ELSE Append(prevCart, CartItem(product, quantity, customCoffee))

\* the updater addToCart hands to setCart
addToCartUpdater(prevCart, product, quantity, customCoffee) ==
    LET existingItemIndex == findIndex(prevCart, product)
    IN IF existingItemIndex > -1 /\ ~Truthy(customCoffee)
       THEN [prevCart EXCEPT ![existingItemIndex + 1].quantity = @ + quantity]
       ELSE Append(prevCart, CartItem(product, quantity, customCoffee))

\* filter that drops the entry after the one asked for
removeFromCartUpdater_OffByOne(prevCart, index) ==
    LET kept == SelectSeq([k \in 1..Len(prevCart) |-> k - 1],
                          LAMBDA i : i # index + 1)
    IN [k \in 1..Len(kept) |-> prevCart[kept[k] + 1]]

\* prevCart.splice(index, 1) on a copy: a negative index counts from the end
removeFromCartUpdater_Splice(prevCart, index) ==
    LET at == IF index < 0 THEN Len(prevCart) + index ELSE index
        kept == SelectSeq([k \in 1..Len(prevCart) |-> k - 1],
                          LAMBDA i : i # at)
    IN [k \in 1..Len(kept) |-> prevCart[kept[k] + 1]]

\* prevCart.filter((_, i) => i !== index)
removeFromCartUpdater(prevCart, index) ==
    LET kept == SelectSeq([k \in 1..Len(prevCart) |-> k - 1],
                          LAMBDA i : i # index)
    IN [k \in 1..Len(kept) |-> prevCart[kept[k] + 1]]

\* index addresses an entry of c, as the indexes of cart.map do
ValidIndex(c, index) == index \in 0..(Len(c) - 1)

\* newCart[index] is undefined: assigning its quantity raises a TypeError
updateQuantityThrows(prevCart, index) == index \notin 0..(Len(prevCart) - 1)

\* the updater updateQuantity hands to setCart when quantity > 0
setQuantityUpdater(prevCart, index, quantity) ==
    [prevCart EXCEPT ![index + 1].quantity = quantity]

\* updateQuantity that removes only on a negative quantity
updateQuantityUpdater_StrictlyNegative(prevCart, index, quantity) ==
    IF quantity < 0
    THEN removeFromCartUpdater(prevCart, index)
    ELSE setQuantityUpdater(prevCart, index, quantity)

\* updateQuantity(index, quantity), for an index the updater accepts
updateQuantityUpdater(prevCart, index, quantity) ==
    IF quantity <= 0
    THEN removeFromCartUpdater(prevCart, index)
    ELSE setQuantityUpdater(prevCart, index, quantity)

(***************************************************************************)
(* What an updater leaves behind in the state it was called with.          *)
(* [...prevCart] copies the array only: newCart and prevCart hold the same *)
(* entry objects, so an assignment to newCart[i].quantity is an assignment *)
(* to prevCart[i].quantity.                                                *)
(***************************************************************************)
\* prevCart after addToCart's updater returned
addToCartLeaves(prevCart, product, quantity, customCoffee) ==
    LET existingItemIndex == findIndex(prevCart, product)
    IN IF existingItemIndex > -1 /\ ~Truthy(customCoffee)
       THEN [prevCart EXCEPT ![existingItemIndex + 1].quantity = @ + quantity]
       ELSE prevCart

\* prevCart after updateQuantity's updater returned (quantity > 0)
setQuantityLeaves(prevCart, index, quantity) ==
    [prevCart EXCEPT ![index + 1].quantity = quantity]

\* the state React renders when it invokes the updater `times` times with
\* the same prevCart object (twice under React.StrictMode in development)
addToCartInvoked(prevCart, product, quantity, customCoffee, times) ==
    IF times = 1
    THEN addToCartUpdater(prevCart, product, quantity, customCoffee)
    ELSE addToCartUpdater(addToCartLeaves(prevCart, product, quantity, customCoffee),
                          product, quantity, customCoffee)

setQuantityInvoked(prevCart, index, quantity, times) ==
    IF times = 1
    THEN setQuantityUpdater(prevCart, index, quantity)
    ELSE setQuantityUpdater(setQuantityLeaves(prevCart, index, quantity),
                            index, quantity)

\* setCart([])
clearCartUpdater(prevCart) == << >>

RECURSIVE reduceTotal(_, _, _)
reduceTotal(c, k, total) ==
    IF k > Len(c) THEN total
    ELSE reduceTotal(c, k + 1, total + (c[k].price * c[k].quantity))

RECURSIVE reducePrices(_, _, _)
reducePrices(c, k, total) ==
    IF k > Len(c) THEN total
    ELSE reducePrices(c, k + 1, total + c[k].price)

\* a total that forgets the quantity
getCartTotal_IgnoresQuantity(c) == reducePrices(c, 1, 0)

\* cart.reduce((total, item) => total + (item.price * item.quantity), 0)
getCartTotal(c) == reduceTotal(c, 1, 0)

RECURSIVE reduceCount(_, _, _)
reduceCount(c, k, count) ==
    IF k > Len(c) THEN count
    ELSE reduceCount(c, k + 1, count + c[k].quantity)

\* cart.reduce((count, item) => count + item.quantity, 0)
getCartCount(c) == reduceCount(c, 1, 0)

(***************************************************************************)
(* Observation of the run: the last handler that ran with its arguments,   *)
(* and the current run of plain addToCart calls for one product id.        *)
(***************************************************************************)
NoId == "-"

\* no request body: the handler posted nothing
NoBody == [items |-> << >>, totalAmount |-> 0]

\* prevLen is the length of the cart the handler started from, body the
\* request body it posted, live whether the continuation or timer that ran
\* belongs to the Cart component on screen, logged whether the handler
\* called console.error
Op(op, id, quantity, customCoffee, index) ==
    [op |-> op, id |-> id, quantity |-> quantity,
     customCoffee |-> customCoffee, index |-> index, prevLen |-> Len(cart),
     body |-> NoBody, live |-> FALSE, logged |-> FALSE]

NoRun == [id |-> NoId, sum |-> 0, calls |-> 0]

HasId(c, id) == \E k \in 1..Len(c) : c[k]._id = id

\* a run for product id P starts when P is added, without customization,
\* to a cart with no entry for P, and lasts while only such calls follow
runAfterAdd(c, product, quantity, customCoffee) ==
    IF Truthy(customCoffee) THEN NoRun
    ELSE IF ~HasId(c, product._id)
         THEN [id |-> product._id, sum |-> quantity, calls |-> 1]
    ELSE IF run.id = product._id
         THEN [run EXCEPT !.sum = @ + quantity, !.calls = @ + 1]
    ELSE NoRun

\* the bounds on what is explored
WithinBounds(c) ==
    /\ Len(c) <= MaxCartLen
    /\ \A k \in 1..Len(c) : c[k].quantity <= MaxItemQty

(***************************************************************************)
(* localStorage slot "cart" and the JSON text kept in it.  A text is       *)
(* modelled by the JSON value it denotes; two texts that are not JSON      *)
(* values stand for the empty string and for a string JSON.parse rejects.  *)
(***************************************************************************)
JNull == [json |-> "null"]

JNum(n) == [json |-> "number", num |-> n]

JStr(s) == [json |-> "string", str |-> s]

JArr(elems) == [json |-> "array", elems |-> elems]

JObj(members) == [json |-> "object", members |-> members]

EmptyText == [json |-> "empty string"]

GarbageText == [json |-> "syntax error"]

\* localStorage.getItem('cart') when the key was never set
Absent == [json |-> "absent"]

\* JSON.stringify leaves out the members whose value is undefined
Defined(members) == SelectSeq(members, LAMBDA m : m.value # Undefined)

customCoffeeToJSON(c) ==
    IF c = Undefined THEN Undefined
    ELSE IF c = Null THEN JNull
    ELSE IF c.size = 0 THEN JObj(<< >>)
    ELSE JObj(<< [key |-> "sugar", value |-> JNum(c.sugar)],
                 [key |-> "milk", value |-> JStr(c.milk)],
                 [key |-> "coffee", value |-> JNum(c.coffee)],
                 [key |-> "chocolate", value |-> JNum(c.chocolate)] >>)

\* a serialization that keeps the product fields and the quantity only
itemToJSON_DropsCustomization(item) ==
    JObj(<< [key |-> "_id", value |-> JStr(item._id)],
            [key |-> "name", value |-> JStr(item.name)],
            [key |-> "price", value |-> JNum(item.price)],
            [key |-> "quantity", value |-> JNum(item.quantity)] >>)

\* member order is the key order of { ...product, quantity, customCoffee }
itemToJSON(item) ==
    JObj(Defined(<< [key |-> "_id", value |-> JStr(item._id)],
                    [key |-> "name", value |-> JStr(item.name)],
                    [key |-> "price", value |-> JNum(item.price)],
                    [key |-> "quantity", value |-> JNum(item.quantity)],
                    [key |-> "customCoffee",
                     value |-> customCoffeeToJSON(item.customCoffee)] >>))

\* JSON.stringify(cart)
JSONstringify(c) == JArr([k \in 1..Len(c) |-> itemToJSON(c[k])])

\* obj[key]: the last member with that key, undefined when there is none
Member(obj, key) ==
    LET at == {i \in 1..Len(obj.members) : obj.members[i].key = key}
    IN  IF at = {} THEN Undefined
        ELSE obj.members[CHOOSE i \in at : \A j \in at : j <= i].value

customCoffeeFromJSON(j) ==
    IF j = Undefined THEN Undefined
    ELSE IF j = JNull THEN Null
    ELSE IF j.members = << >> THEN EmptyObj
    ELSE [type |-> "object", size |-> Len(j.members),
          sugar |-> Member(j, "sugar").num, milk |-> Member(j, "milk").str,
          coffee |-> Member(j, "coffee").num,
          chocolate |-> Member(j, "chocolate").num]

itemFromJSON(j) ==
    [_id |-> Member(j, "_id").str, name |-> Member(j, "name").str,
     price |-> Member(j, "price").num, quantity |-> Member(j, "quantity").num,
     customCoffee |-> customCoffeeFromJSON(Member(j, "customCoffee"))]

\* JSON.parse(savedCart) throws a SyntaxError
JSONparseThrows(text) == text = GarbageText

\* JSON.parse(savedCart) of a text that parses: an array of items, or null
JSONparse(text) ==
    IF text.json = "array"
    THEN [kind |-> "array",
          value |-> [k \in 1..Len(text.elems) |-> itemFromJSON(text.elems[k])]]
    ELSE [kind |-> "null", value |-> << >>]

\* no setCart(JSON.parse(...)) waits for its re-render
NoPending == [kind |-> "none", value |-> << >>]

\* CartProvider is mounted, rendered with its latest state and not torn down
Running == ~crashed /\ pending = NoPending

\* a save effect that skips the write when the cart is empty
SaveEffect_SkipsEmpty ==
    storage' = IF crashed' \/ cart' = << >> THEN storage ELSE JSONstringify(cart')

\* the effect on [cart]: localStorage.setItem('cart', JSON.stringify(cart)),
\* run after the render that follows a state change; a render that threw
\* commits nothing and runs no effect
SaveEffect ==
    storage' = IF crashed' THEN storage ELSE JSONstringify(cart')

\* CoffeeBuilder: useState(0), useState('none'), useState(1), useState(0)
BuilderDefaults == [sugar |-> 0, milk |-> "none", coffee |-> 1, chocolate |-> 0]

\* useState(null) of a toast
NoToast == "null"

\* Date.now() when the session starts, in abstract milliseconds
FirstClock == 1

(***************************************************************************)
(* The Shop page: two lists fetched on mount and a category filter.  A     *)
(* JSON body is an array (a list) or something else (an error object).     *)
(***************************************************************************)
List(value) == [kind |-> "array", value |-> value]

\* a JSON body that is no array, such as { message: '...' }
ErrorBody == [kind |-> "object", value |-> << >>]

CatalogProduct(id, name, category, price, inStock) ==
    [_id |-> id, name |-> name, category |-> category, price |-> price,
     inStock |-> inStock]

\* mockProducts and mockCategories of Shop.test.js
ShopCatalog ==
    << CatalogProduct("1", "Espresso", "Coffee", 399, TRUE),
       CatalogProduct("2", "Latte", "Coffee", 499, TRUE),
       CatalogProduct("3", "Croissant", "Pastries", 299, FALSE) >>

ShopCategories == << "Coffee", "Pastries" >>

\* what GET /api/products can answer with
ProductsBodies ==
    {List(ShopCatalog), List(<< ShopCatalog[3], ShopCatalog[1] >>),
     List(<< ShopCatalog[2] >>), List(<< >>), ErrorBody}

\* the products a catalog response can bring
ShopProducts ==
    UNION {{data.value[k] : k \in 1..Len(data.value)} : data \in ProductsBodies}

\* what GET /api/products/categories/all can answer with; "coffee" differs
\* from "Coffee" in case only
CategoriesBodies ==
    {List(ShopCategories), List(<< "coffee", "Pastries", "Tea" >>), ErrorBody}

\* no Shop on screen.  orphanedProducts and orphanedCategories count the
\* fetches of Shop instances that are gone (unmounted by a navigation or
\* with the tree) and whose continuation has not run yet
ShopAbsent ==
    [products |-> List(<< >>), selectedCategory |-> "All",
     categories |-> << "All" >>, fetchingProducts |-> FALSE,
     fetchingCategories |-> FALSE, orphanedProducts |-> 0,
     orphanedCategories |-> 0]

\* Shop after its first render and mount effect: both fetches are out
ShopMounted ==
    [ShopAbsent EXCEPT !.fetchingProducts = TRUE, !.fetchingCategories = TRUE]

\* the fetches of s are left to themselves: fetch is not cancelled and the
\* continuations of fetchProducts / fetchCategories still run
ShopAbandoned(s) ==
    [s EXCEPT !.fetchingProducts = FALSE,
              !.fetchingCategories = FALSE,
              !.orphanedProducts = @ + (IF s.fetchingProducts THEN 1 ELSE 0),
              !.orphanedCategories = @ + (IF s.fetchingCategories THEN 1 ELSE 0)]

\* the route changes away from /shop: the state of Shop is dropped
ShopUnmounted(s) ==
    [ShopAbsent EXCEPT !.orphanedProducts = ShopAbandoned(s).orphanedProducts,
                       !.orphanedCategories = ShopAbandoned(s).orphanedCategories]

\* the route changes to /shop: a new Shop with its own two fetches
ShopEntered(s) ==
    [ShopMounted EXCEPT !.orphanedProducts = s.orphanedProducts,
                        !.orphanedCategories = s.orphanedCategories]

(***************************************************************************)
(* The Admin page: a product table, one row in edit mode at most, saves    *)
(* that are awaiting their response.                                       *)
(***************************************************************************)
\* mockProducts of Admin.test.js
AdminCatalog ==
    << CatalogProduct("1", "Espresso", "Coffee", 399, TRUE),
       CatalogProduct("2", "Croissant", "Pastries", 299, FALSE) >>

\* the price typed into the price input
TypedPrice == 499

\* no product returned by the server yet
NoReturned == [id \in {AdminCatalog[k]._id : k \in 1..Len(AdminCatalog)} |-> Null]

\* Admin after its first render and mount effect: fetchProducts is out.
\* saves holds, for every handleSave awaiting its response, what its
\* closure captured; returned the product the server returned last for
\* each id
AdminMounted ==
    [products |-> List(<< >>), editingProduct |-> Null, toast |-> NoToast,
     loading |-> TRUE, saves |-> << >>, returned |-> NoReturned,
     pressed |-> 0, orphanedFetches |-> 0, orphanedSaves |-> 0]

\* no Admin on screen.  orphanedFetches and orphanedSaves count the
\* fetchProducts and handleSave calls of Admin instances that are gone and
\* whose continuation has not run yet
AdminAbsent == [AdminMounted EXCEPT !.loading = FALSE]

\* the route changes away from /admin: the state of Admin is dropped, its
\* requests stay out
AdminUnmounted(a) ==
    [AdminAbsent EXCEPT
        !.orphanedFetches = a.orphanedFetches + (IF a.loading THEN 1 ELSE 0),
        !.orphanedSaves = a.orphanedSaves + Len(a.saves)]

\* the route changes to /admin: a new Admin with its own fetchProducts
AdminEntered(a) ==
    [AdminMounted EXCEPT !.orphanedFetches = a.orphanedFetches,
                         !.orphanedSaves = a.orphanedSaves]

\* what pages that are gone have left behind: catalog requests and saves
\* still unanswered, order requests and clear timers still pending
Abandoned(s, a, r, t) ==
    s.orphanedProducts + s.orphanedCategories + a.orphanedFetches + a.orphanedSaves
      + Cardinality({k \in 1..Len(r) : ~r[k].live})
      + Cardinality({k \in 1..Len(t) : ~t[k].live})

\* a filter that drops the selection and shows everything
filteredProducts_IgnoresSelection(products, selectedCategory) == products

\* selectedCategory === 'All' ? products
\*                            : products.filter(p => p.category === selectedCategory)
filteredProducts(products, selectedCategory) ==
    IF selectedCategory = "All"
    THEN products
    ELSE SelectSeq(products, LAMBDA p : p.category = selectedCategory)

\* rendering Shop throws: products.filter / filteredProducts.map is not a
\* function when products is no array
ShopRenderThrows(s) == s.products.kind # "array"

(***************************************************************************)
(* Initial state: CartProvider mounted with useState([]), the Cart page    *)
(* with showCheckout = false and toast = null, nothing pending.            *)
(***************************************************************************)
\* the routes of App: /, /shop, /cart, /coffee-builder, /admin
Pages == {"home", "shop", "cart", "builder", "admin"}

\* the page is set before InitCommon: Shop and Admin exist on their routes
InitCommon ==
    /\ cart = << >>
    /\ crashed = FALSE
    /\ last = Op("mount", NoId, 0, Null, 0)
    /\ run = NoRun
    /\ showCheckout = FALSE
    /\ toast = NoToast
    /\ requests = << >>
    /\ timers = << >>
    /\ storage = JSONstringify(<< >>)
    /\ pending = NoPending
    /\ reloaded = << >>
    /\ builder = BuilderDefaults
    /\ now = FirstClock
    /\ shop = (IF page = "shop" THEN ShopMounted ELSE ShopAbsent)
    /\ admin = (IF page = "admin" THEN AdminMounted ELSE AdminAbsent)

(***************************************************************************)
(* The cart store driven through its context API with arbitrary arguments  *)
(* (as the test harness of CartContext.test.js does).                      *)
(***************************************************************************)
InitStore == page = "shop" /\ InitCommon

addToCart(product, quantity, customCoffee) ==
    /\ Running
    /\ WithinBounds(addToCartUpdater(cart, product, quantity, customCoffee))
    /\ cart' = addToCartUpdater(cart, product, quantity, customCoffee)
    /\ run' = runAfterAdd(cart, product, quantity, customCoffee)
    /\ last' = Op("addToCart", product._id, quantity, customCoffee, 0)
    /\ UNCHANGED <<crashed, page, showCheckout, toast, requests, timers>>
    /\ SaveEffect
    /\ UNCHANGED <<pending, reloaded, builder>>
    /\ UNCHANGED <<now, shop, admin>>

removeFromCart(index) ==
    /\ Running
    /\ cart' = removeFromCartUpdater(cart, index)
    /\ run' = NoRun
    /\ last' = Op("removeFromCart", NoId, 0, Null, index)
    /\ UNCHANGED <<crashed, page, showCheckout, toast, requests, timers>>
    /\ SaveEffect
    /\ UNCHANGED <<pending, reloaded, builder>>
    /\ UNCHANGED <<now, shop, admin>>

updateQuantity(index, quantity) ==
    /\ Running
    /\ IF quantity > 0 /\ updateQuantityThrows(cart, index)
       THEN crashed' = TRUE /\ cart' = cart
       ELSE crashed' = FALSE /\ cart' = updateQuantityUpdater(cart, index, quantity)
    /\ run' = NoRun
    /\ last' = Op("updateQuantity", NoId, quantity, Null, index)
    /\ UNCHANGED <<page, showCheckout, toast, requests, timers>>
    /\ SaveEffect
    /\ UNCHANGED <<pending, reloaded, builder>>
    /\ UNCHANGED <<now, shop, admin>>

clearCart ==
    /\ Running
    /\ cart' = clearCartUpdater(cart)
    /\ run' = NoRun
    /\ last' = Op("clearCart", NoId, 0, Null, 0)
    /\ UNCHANGED <<crashed, page, showCheckout, toast, requests, timers>>
    /\ SaveEffect
    /\ UNCHANGED <<pending, reloaded, builder>>
    /\ UNCHANGED <<now, shop, admin>>

Indexes == -1..MaxCartLen

NextStore ==
    \/ \E product \in Products, quantity \in 1..MaxQty, customCoffee \in Customizations :
          addToCart(product, quantity, customCoffee)
    \/ \E index \in Indexes : removeFromCart(index)
    \/ \E index \in Indexes, quantity \in -1..MaxQty : updateQuantity(index, quantity)
    \/ clearCart

SpecStore == InitStore /\ [][NextStore]_vars

(***************************************************************************)
(* The cart store under a React that may invoke a state updater twice      *)
(* with the same previous state.                                           *)
(***************************************************************************)
Invocations == {1, 2}

addToCartStrict(product, quantity, customCoffee, times) ==
    /\ Running
    /\ WithinBounds(addToCartInvoked(cart, product, quantity, customCoffee, times))
    /\ cart' = addToCartInvoked(cart, product, quantity, customCoffee, times)
    /\ run' = NoRun
    /\ last' = Op("addToCart", product._id, quantity, customCoffee, 0)
    /\ UNCHANGED <<crashed, page, showCheckout, toast, requests, timers>>
    /\ SaveEffect
    /\ UNCHANGED <<pending, reloaded, builder>>
    /\ UNCHANGED <<now, shop, admin>>

updateQuantityStrict(index, quantity, times) ==
    /\ Running
    /\ IF quantity <= 0
       THEN crashed' = FALSE /\ cart' = removeFromCartUpdater(cart, index)
       ELSE IF updateQuantityThrows(cart, index)
            THEN crashed' = TRUE /\ cart' = cart
            ELSE crashed' = FALSE
                 /\ cart' = setQuantityInvoked(cart, index, quantity, times)
    /\ run' = NoRun
    /\ last' = Op("updateQuantity", NoId, quantity, Null, index)
    /\ UNCHANGED <<page, showCheckout, toast, requests, timers>>
    /\ SaveEffect
    /\ UNCHANGED <<pending, reloaded, builder>>
    /\ UNCHANGED <<now, shop, admin>>

NextStrict ==
    \/ \E product \in Products, quantity \in 1..MaxQty,
          customCoffee \in Customizations, times \in Invocations :
          addToCartStrict(product, quantity, customCoffee, times)
    \/ \E index \in Indexes : removeFromCart(index)
    \/ \E index \in Indexes, quantity \in -1..MaxQty, times \in Invocations :
          updateQuantityStrict(index, quantity, times)
    \/ clearCart

SpecStrict == InitStore /\ [][NextStrict]_vars

(***************************************************************************)
(* The application: the Shop page and the coffee builder add to the cart,  *)
(* the Cart page edits it and runs the checkout.                           *)
(***************************************************************************)
ToastSuccess == "Order placed successfully!"

ToastFailed == "Failed to place order. Please try again."

ToastError == "Error placing order. Please try again."

\* basePrice and addOns of CoffeeBuilder, in cents
basePrice == 350

addOnSugar == 25

addOnMilkRegular == 50

addOnMilkOat == 75

addOnCoffee == 75

addOnChocolate == 50

\* a price that charges every shot, the first one included
calculatePrice_ChargesEveryShot(b) ==
    basePrice + b.sugar * addOnSugar
      + (IF b.milk = "regular" THEN addOnMilkRegular ELSE 0)
      + (IF b.milk = "oat" THEN addOnMilkOat ELSE 0)
      + b.coffee * addOnCoffee + b.chocolate * addOnChocolate

\* calculatePrice(), in cents: every term of the code is a multiple of
\* 0.25, so its floating-point sum is exact
calculatePrice(b) ==
    basePrice + b.sugar * addOnSugar
      + (IF b.milk = "regular" THEN addOnMilkRegular ELSE 0)
      + (IF b.milk = "oat" THEN addOnMilkOat ELSE 0)
      + (b.coffee - 1) * addOnCoffee + b.chocolate * addOnChocolate

\* 'custom-coffee-' + Date.now(), for the clock values explored
customCoffeeId(t) ==
    << "custom-coffee-1", "custom-coffee-2", "custom-coffee-3", "custom-coffee-4" >>[t]

\* the product object handleAddToCart builds (const customCoffee)
customCoffeeProduct(b, t) ==
    [_id |-> customCoffeeId(t), name |-> "Custom Coffee", price |-> calculatePrice(b)]

\* const coffeeConfig = { sugar, milk, coffee, chocolate }
coffeeConfig(b) ==
    [type |-> "object", size |-> 4, sugar |-> b.sugar, milk |-> b.milk,
     coffee |-> b.coffee, chocolate |-> b.chocolate]

\* an order item that leaves the customization out
orderItem_DropsCustomization(item) ==
    [productId |-> item._id, name |-> item.name, price |-> item.price,
     quantity |-> item.quantity, customCoffee |-> Undefined]

\* one item of orderData.items
orderItem(item) ==
    [productId |-> item._id, name |-> item.name, price |-> item.price,
     quantity |-> item.quantity,
     customCoffee |-> IF Truthy(item.customCoffee) THEN item.customCoffee ELSE Undefined]

\* orderData of handleCheckout
orderData(c) ==
    [items |-> [k \in 1..Len(c) |-> orderItem(c[k])],
     totalAmount |-> getCartTotal(c)]

\* the Cart component leaves the screen: its pending continuations and
\* timers keep running but address a component that is gone
Orphaned(waiting) == [k \in 1..Len(waiting) |-> [live |-> FALSE]]

\* s without its k-th element
Drop(s, k) == SubSeq(s, 1, k - 1) \o SubSeq(s, k + 1, Len(s))

\* a Cart page that renders the item list whatever the cart holds
CartShown_IgnoresEmptiness == page = "cart" /\ ~crashed

\* the Cart page shows the item list and its controls
CartShown == page = "cart" /\ ~crashed /\ cart # << >>

\* what is explored of the application: the pages only add or step by one
PageBounds(c) ==
    /\ Len(c) <= MaxCartLen
    /\ \A k \in 1..Len(c) : c[k].quantity <= MaxQty

Init == page \in Pages /\ InitCommon

\* NavBar links: the element of the old route unmounts and its state is
\* dropped, the element of the new route mounts
Navigate(p) ==
    /\ ~crashed
    /\ p # page
    /\ page' = p
    /\ IF page = "cart"
       THEN /\ showCheckout' = FALSE
            /\ toast' = NoToast
            /\ requests' = Orphaned(requests)
            /\ timers' = Orphaned(timers)
       ELSE UNCHANGED <<showCheckout, toast, requests, timers>>
    /\ builder' = IF page = "builder" THEN BuilderDefaults ELSE builder
    /\ shop' = IF page = "shop" THEN ShopUnmounted(shop)
               ELSE IF p = "shop" THEN ShopEntered(shop) ELSE shop
    /\ admin' = IF page = "admin" THEN AdminUnmounted(admin)
                ELSE IF p = "admin" THEN AdminEntered(admin) ELSE admin
    /\ Abandoned(shop', admin', requests', timers') <= MaxAbandoned
    /\ last' = Op("navigate", NoId, 0, Null, 0)
    /\ UNCHANGED <<cart, crashed, run>>
    /\ UNCHANGED <<storage, pending, reloaded>>
    /\ UNCHANGED now

\* Shop: the button of a product card calls handleAddToCart(product),
\* which calls addToCart(product).  There is a card for every product of
\* filteredProducts and its button is disabled unless product.inStock
ShopAddToCart(product) ==
    /\ page = "shop"
    /\ ~crashed
    /\ ~ShopRenderThrows(shop)
    /\ LET shown == filteredProducts(shop.products.value, shop.selectedCategory)
       IN \E k \in 1..Len(shown) : shown[k] = product
    /\ product.inStock
    /\ PageBounds(addToCartUpdater(cart, product, 1, Null))
    /\ cart' = addToCartUpdater(cart, product, 1, Null)
    /\ last' = Op("addToCart", product._id, 1, Null, 0)
    /\ UNCHANGED <<crashed, run, page, showCheckout, toast, requests, timers>>
    /\ SaveEffect
    /\ UNCHANGED <<pending, reloaded, builder>>
    /\ UNCHANGED <<now, shop, admin>>

\* CoffeeBuilder: handleAddToCart adds the custom coffee built from the
\* options and opens the cart; CoffeeBuilder unmounts and its options are
\* gone
BuilderAddToCart ==
    /\ page = "builder"
    /\ ~crashed
    /\ PageBounds(addToCartUpdater(cart, customCoffeeProduct(builder, now), 1,
                                   coffeeConfig(builder)))
    /\ cart' = addToCartUpdater(cart, customCoffeeProduct(builder, now), 1,
                                coffeeConfig(builder))
    /\ page' = "cart"
    /\ builder' = BuilderDefaults
    /\ last' = Op("addToCart", customCoffeeId(now), 1, coffeeConfig(builder), 0)
    /\ UNCHANGED <<crashed, run, showCheckout, toast, requests, timers>>
    /\ SaveEffect
    /\ UNCHANGED <<pending, reloaded>>
    /\ UNCHANGED <<now, shop, admin>>

\* Cart: the - and + buttons call updateQuantity(index, item.quantity -/+ 1)
QuantityButton(index, delta) ==
    /\ CartShown
    /\ ValidIndex(cart, index)
    /\ cart[index + 1].quantity + delta <= MaxQty
    /\ cart' = updateQuantityUpdater(cart, index, cart[index + 1].quantity + delta)
    /\ last' = Op("updateQuantity", NoId, cart[index + 1].quantity + delta, Null, index)
    /\ UNCHANGED <<crashed, run, page, showCheckout, toast, requests, timers>>
    /\ SaveEffect
    /\ UNCHANGED <<pending, reloaded, builder>>
    /\ UNCHANGED <<now, shop, admin>>

\* Cart: the Remove button
RemoveButton(index) ==
    /\ CartShown
    /\ ValidIndex(cart, index)
    /\ cart' = removeFromCartUpdater(cart, index)
    /\ last' = Op("removeFromCart", NoId, 0, Null, index)
    /\ UNCHANGED <<crashed, run, page, showCheckout, toast, requests, timers>>
    /\ SaveEffect
    /\ UNCHANGED <<pending, reloaded, builder>>
    /\ UNCHANGED <<now, shop, admin>>

\* Cart: the Clear Cart button, shown next to Proceed to Checkout
ClearCartButton ==
    /\ CartShown
    /\ ~showCheckout
    /\ cart' = clearCartUpdater(cart)
    /\ last' = Op("clearCart", NoId, 0, Null, 0)
    /\ UNCHANGED <<crashed, run, page, showCheckout, toast, requests, timers>>
    /\ SaveEffect
    /\ UNCHANGED <<pending, reloaded, builder>>
    /\ UNCHANGED <<now, shop, admin>>

\* Cart: Proceed to Checkout
ProceedToCheckout ==
    /\ CartShown
    /\ ~showCheckout
    /\ showCheckout' = TRUE
    /\ last' = Op("proceed", NoId, 0, Null, 0)
    /\ UNCHANGED <<cart, crashed, run, page, toast, requests, timers>>
    /\ UNCHANGED <<storage, pending, reloaded, builder>>
    /\ UNCHANGED <<now, shop, admin>>

\* Cart: Cancel in the confirmation panel
CancelCheckout ==
    /\ CartShown
    /\ showCheckout
    /\ showCheckout' = FALSE
    /\ last' = Op("cancel", NoId, 0, Null, 0)
    /\ UNCHANGED <<cart, crashed, run, page, toast, requests, timers>>
    /\ UNCHANGED <<storage, pending, reloaded, builder>>
    /\ UNCHANGED <<now, shop, admin>>

\* Cart: Place Order runs handleCheckout up to its await: the order data is
\* built from the cart and posted
handleCheckout ==
    /\ CartShown
    /\ showCheckout
    /\ Len(requests) + Len(timers) < MaxInFlight
    /\ requests' = Append(requests, [live |-> TRUE])
    /\ last' = [Op("handleCheckout", NoId, 0, Null, 0) EXCEPT !.body = orderData(cart)]
    /\ UNCHANGED <<cart, crashed, run, page, showCheckout, toast, timers>>
    /\ UNCHANGED <<storage, pending, reloaded, builder>>
    /\ UNCHANGED <<now, shop, admin>>

\* handleCheckout resumes with response.ok: the toast is set and the clear
\* is scheduled 2000 ms ahead
ResponseOk(k) ==
    /\ k \in 1..Len(requests)
    /\ requests' = Drop(requests, k)
    /\ toast' = IF requests[k].live THEN ToastSuccess ELSE toast
    /\ timers' = Append(timers, requests[k])
    /\ last' = [Op("responseOk", NoId, 0, Null, 0) EXCEPT !.live = requests[k].live]
    /\ UNCHANGED <<cart, crashed, run, page, showCheckout>>
    /\ UNCHANGED <<storage, pending, reloaded, builder>>
    /\ UNCHANGED <<now, shop, admin>>

\* a failure branch that gives the order up: it empties the cart and closes
\* the confirmation panel
ResponseNotOk_ResetsCheckout(k) ==
    /\ k \in 1..Len(requests)
    /\ requests' = Drop(requests, k)
    /\ toast' = IF requests[k].live THEN ToastFailed ELSE toast
    /\ cart' = << >>
    /\ showCheckout' = FALSE
    /\ last' = [Op("responseNotOk", NoId, 0, Null, 0) EXCEPT !.live = requests[k].live]
    /\ UNCHANGED <<crashed, run, page, timers>>
    /\ SaveEffect
    /\ UNCHANGED <<pending, reloaded, builder>>
    /\ UNCHANGED <<now, shop, admin>>

\* handleCheckout resumes with a response that is not ok
ResponseNotOk(k) ==
    /\ k \in 1..Len(requests)
    /\ requests' = Drop(requests, k)
    /\ toast' = IF requests[k].live THEN ToastFailed ELSE toast
    /\ last' = [Op("responseNotOk", NoId, 0, Null, 0) EXCEPT !.live = requests[k].live]
    /\ UNCHANGED <<cart, crashed, run, page, showCheckout, timers>>
    /\ UNCHANGED <<storage, pending, reloaded, builder>>
    /\ UNCHANGED <<now, shop, admin>>

\* fetch rejects: the catch block of handleCheckout, console.error and
\* setToast
FetchRejects(k) ==
    /\ k \in 1..Len(requests)
    /\ requests' = Drop(requests, k)
    /\ toast' = IF requests[k].live THEN ToastError ELSE toast
    /\ last' = [Op("fetchRejects", NoId, 0, Null, 0)
                   EXCEPT !.live = requests[k].live, !.logged = TRUE]
    /\ UNCHANGED <<cart, crashed, run, page, showCheckout, timers>>
    /\ UNCHANGED <<storage, pending, reloaded, builder>>
    /\ UNCHANGED <<now, shop, admin>>

\* a timeout callback that clears the cart but leaves the panel open
TimerFires_KeepsPanel ==
    /\ timers # << >>
    /\ timers' = Tail(timers)
    /\ cart' = << >>
    /\ last' = [Op("timerFires", NoId, 0, Null, 0) EXCEPT !.live = Head(timers).live]
    /\ UNCHANGED <<crashed, run, page, showCheckout, toast, requests>>
    /\ SaveEffect
    /\ UNCHANGED <<pending, reloaded, builder>>
    /\ UNCHANGED <<now, shop, admin>>

\* the timeout callback: clearCart(); setShowCheckout(false). Timers share
\* one delay and fire in the order they were set
TimerFires ==
    /\ timers # << >>
    /\ timers' = Tail(timers)
    /\ cart' = IF crashed THEN cart ELSE clearCartUpdater(cart)
    /\ showCheckout' = IF Head(timers).live THEN FALSE ELSE showCheckout
    /\ last' = [Op("timerFires", NoId, 0, Null, 0) EXCEPT !.live = Head(timers).live]
    /\ UNCHANGED <<crashed, run, page, toast, requests>>
    /\ SaveEffect
    /\ UNCHANGED <<pending, reloaded, builder>>
    /\ UNCHANGED <<now, shop, admin>>

\* the Toast calls onClose (close button or its own timeout)
ToastClose ==
    /\ CartShown
    /\ toast # NoToast
    /\ toast' = NoToast
    /\ last' = Op("toastClose", NoId, 0, Null, 0)
    /\ UNCHANGED <<cart, crashed, run, page, showCheckout, requests, timers>>
    /\ UNCHANGED <<storage, pending, reloaded, builder>>
    /\ UNCHANGED <<now, shop, admin>>

(***************************************************************************)
(* Sessions: the page is loaded with whatever the slot holds, CartProvider *)
(* mounts with useState([]) and runs its two effects, and the cart parsed  *)
(* from the slot arrives with the next render.  No handler runs between    *)
(* the effects and that render.                                            *)
(***************************************************************************)
\* the cart that 'loads cart from localStorage on mount' puts in the slot:
\* items without a customCoffee key
SavedCart == << CartItem([_id |-> "1", name |-> "Espresso", price |-> 399], 2, Undefined) >>

\* what a session can find in the slot: nothing, the empty string, a string
\* that is not JSON, the JSON text null, a saved cart
InitialSlots == {Absent, EmptyText, GarbageText, JNull, JSONstringify(SavedCart)}

\* if (savedCart): null and '' are falsy
SlotTruthy(slot) == slot \notin {Absent, EmptyText}

\* the load effect throws
MountCrashes(slot) == SlotTruthy(slot) /\ JSONparseThrows(slot)

\* the state update the load effect queues with setCart(JSON.parse(savedCart))
MountPending(slot) ==
    IF SlotTruthy(slot) /\ ~JSONparseThrows(slot) THEN JSONparse(slot) ELSE NoPending

\* the slot after the effects of the first render: the save effect writes
\* the initial cart []; after a load effect that threw, whether the save
\* effect still ran is up to React
MountStorage(slot) ==
    IF MountCrashes(slot) THEN {slot, JSONstringify(<< >>)} ELSE {JSONstringify(<< >>)}

InitPersist ==
    \E slot \in InitialSlots :
        /\ cart = << >>
        /\ crashed = MountCrashes(slot)
        /\ last = Op("mount", slot.json, 0, Null, 0)
        /\ run = NoRun
        /\ page = "shop"
        /\ showCheckout = FALSE
        /\ toast = NoToast
        /\ requests = << >>
        /\ timers = << >>
        /\ storage \in MountStorage(slot)
        /\ pending = MountPending(slot)
        /\ reloaded = << >>
        /\ builder = BuilderDefaults
        /\ now = FirstClock
        /\ shop = ShopMounted
        /\ admin = AdminAbsent

\* the page is loaded again: every component state starts over, the slot
\* is what the last session left; reloaded keeps the cart that session held
Reload ==
    /\ pending = NoPending
    /\ cart' = << >>
    /\ crashed' = MountCrashes(storage)
    /\ storage' \in MountStorage(storage)
    /\ pending' = MountPending(storage)
    /\ reloaded' = cart
    /\ last' = Op("reload", storage.json, 0, Null, 0)
    /\ run' = NoRun
    /\ showCheckout' = FALSE
    /\ toast' = NoToast
    /\ requests' = << >>
    /\ timers' = << >>
    /\ builder' = BuilderDefaults
    /\ UNCHANGED page
    /\ shop' = (IF page = "shop" THEN ShopMounted ELSE ShopAbsent)
    /\ admin' = (IF page = "admin" THEN AdminMounted ELSE AdminAbsent)
    /\ UNCHANGED now

\* the render with the parsed value as cart, then the save effect; a value
\* that is no array makes the render throw in getCartCount (cart.reduce)
Rehydrate ==
    /\ ~crashed
    /\ pending # NoPending
    /\ IF pending.kind = "array"
       THEN cart' = pending.value /\ crashed' = FALSE
       ELSE cart' = cart /\ crashed' = TRUE
    /\ SaveEffect
    /\ pending' = NoPending
    /\ reloaded' = << >>
    /\ last' = Op("rehydrate", last.id, 0, Null, 0)
    /\ run' = NoRun
    /\ UNCHANGED <<page, showCheckout, toast, requests, timers, builder>>
    /\ UNCHANGED <<now, shop, admin>>

NextPersist ==
    \/ \E product \in Products, quantity \in 1..MaxQty, customCoffee \in Customizations :
          addToCart(product, quantity, customCoffee)
    \/ \E index \in Indexes : removeFromCart(index)
    \/ \E index \in Indexes, quantity \in -1..MaxQty : updateQuantity(index, quantity)
    \/ clearCart
    \/ Reload
    \/ Rehydrate

SpecPersist == InitPersist /\ [][NextPersist]_vars

(***************************************************************************)
(* The Shop page's catalog: the mount effect issues fetchProducts and      *)
(* fetchCategories, each resumes on its own when its response arrives.     *)
(***************************************************************************)
InitShop == page = "shop" /\ InitCommon

\* fetchProducts resumes: response.json() resolved with data,
\* setProducts(data).  When the render that follows throws the tree is
\* torn down, and a fetchCategories still out is left to itself
ProductsArrive(data) ==
    /\ page = "shop"
    /\ ~crashed
    /\ shop.fetchingProducts
    /\ LET s == [shop EXCEPT !.products = data, !.fetchingProducts = FALSE]
       IN shop' = IF ShopRenderThrows(s) THEN ShopAbandoned(s) ELSE s
    /\ crashed' = ShopRenderThrows(shop')
    /\ last' = Op("fetchProducts", data.kind, 0, Null, 0)
    /\ UNCHANGED <<cart, run, page, showCheckout, toast, requests, timers>>
    /\ UNCHANGED <<storage, pending, reloaded, builder, now, admin>>

\* fetchProducts: fetch or response.json() rejects, the catch block logs
ProductsFail ==
    /\ page = "shop"
    /\ ~crashed
    /\ shop.fetchingProducts
    /\ shop' = [shop EXCEPT !.fetchingProducts = FALSE]
    /\ last' = [Op("fetchProducts", "rejects", 0, Null, 0) EXCEPT !.logged = TRUE]
    /\ UNCHANGED <<cart, crashed, run, page, showCheckout, toast, requests, timers>>
    /\ UNCHANGED <<storage, pending, reloaded, builder, now, admin>>

\* fetchCategories resumes: setCategories(['All', ...data]); spreading a
\* body that is no array throws inside the try block and is logged
CategoriesArrive(data) ==
    /\ page = "shop"
    /\ ~crashed
    /\ shop.fetchingCategories
    /\ shop' = [shop EXCEPT
                  !.categories = IF data.kind = "array"
                                 THEN << "All" >> \o data.value ELSE @,
                  !.fetchingCategories = FALSE]
    /\ last' = [Op("fetchCategories", data.kind, 0, Null, 0)
                   EXCEPT !.logged = (data.kind # "array")]
    /\ UNCHANGED <<cart, crashed, run, page, showCheckout, toast, requests, timers>>
    /\ UNCHANGED <<storage, pending, reloaded, builder, now, admin>>

\* fetchCategories: fetch or response.json() rejects, the catch block logs
CategoriesFail ==
    /\ page = "shop"
    /\ ~crashed
    /\ shop.fetchingCategories
    /\ shop' = [shop EXCEPT !.fetchingCategories = FALSE]
    /\ last' = [Op("fetchCategories", "rejects", 0, Null, 0) EXCEPT !.logged = TRUE]
    /\ UNCHANGED <<cart, crashed, run, page, showCheckout, toast, requests, timers>>
    /\ UNCHANGED <<storage, pending, reloaded, builder, now, admin>>

\* a category button: setSelectedCategory(category); there is one button
\* per element of categories
SelectCategory(category) ==
    /\ page = "shop"
    /\ ~crashed
    /\ \E k \in 1..Len(shop.categories) : shop.categories[k] = category
    /\ shop' = [shop EXCEPT !.selectedCategory = category]
    /\ last' = Op("selectCategory", category, 0, Null, 0)
    /\ UNCHANGED <<cart, crashed, run, page, showCheckout, toast, requests, timers>>
    /\ UNCHANGED <<storage, pending, reloaded, builder, now, admin>>

\* how a catalog request ends: with a JSON array, with JSON that is no
\* array, or by rejecting
Answers == {"array", "object", "rejects"}

\* fetchProducts of a Shop that is gone resumes: setProducts on an
\* unmounted component changes nothing; the catch block still logs
AbandonedProducts(answer) ==
    /\ shop.orphanedProducts > 0
    /\ shop' = [shop EXCEPT !.orphanedProducts = @ - 1]
    /\ last' = [Op("fetchProducts", answer, 0, Null, 0)
                   EXCEPT !.live = FALSE, !.logged = (answer = "rejects")]
    /\ UNCHANGED <<cart, crashed, run, page, showCheckout, toast, requests, timers>>
    /\ UNCHANGED <<storage, pending, reloaded, builder, now, admin>>

\* fetchCategories of a Shop that is gone resumes: the spread of a body
\* that is no array still throws and is logged
AbandonedCategories(answer) ==
    /\ shop.orphanedCategories > 0
    /\ shop' = [shop EXCEPT !.orphanedCategories = @ - 1]
    /\ last' = [Op("fetchCategories", answer, 0, Null, 0)
                   EXCEPT !.live = FALSE, !.logged = (answer # "array")]
    /\ UNCHANGED <<cart, crashed, run, page, showCheckout, toast, requests, timers>>
    /\ UNCHANGED <<storage, pending, reloaded, builder, now, admin>>

\* every category name a response can bring
CategoryNames ==
    {"All"} \cup UNION {{data.value[k] : k \in 1..Len(data.value)} : data \in CategoriesBodies}

NextShop ==
    \/ \E data \in ProductsBodies : ProductsArrive(data)
    \/ ProductsFail
    \/ \E data \in CategoriesBodies : CategoriesArrive(data)
    \/ CategoriesFail
    \/ \E category \in CategoryNames : SelectCategory(category)
    \/ \E answer \in Answers : AbandonedProducts(answer)
    \/ \E answer \in Answers : AbandonedCategories(answer)
    \/ \E product \in ShopProducts : ShopAddToCart(product)
    \/ \E p \in {"home", "shop"} : Navigate(p)

SpecShop == InitShop /\ [][NextShop]_vars

(***************************************************************************)
(* The Admin page.  handleSave is an async function: the products and the  *)
(* editingProduct it reads after its await are those of the render in      *)
(* which Save was pressed.                                                 *)
(***************************************************************************)
ToastLoadFailed == "Failed to load products"

\* `Updated "${editingProduct.name}" successfully!`
ToastUpdated(name) ==
    IF name = "Espresso" THEN "Updated \"Espresso\" successfully!"
    ELSE IF name = "Croissant" THEN "Updated \"Croissant\" successfully!"
    ELSE "Updated successfully!"

ToastUpdateFailed == "Failed to update product"

ToastUpdateError == "Error updating product"

InitAdmin == page = "admin" /\ InitCommon

\* the table is rendered (not the loading text) and products is an array
TableShown == ~admin.loading /\ admin.products.kind = "array"

\* editingProduct?._id
EditingId == IF admin.editingProduct = Null THEN NoId ELSE admin.editingProduct._id

\* the row whose cells are inputs and whose buttons are Save and Cancel
EditedRowShown ==
    /\ TableShown
    /\ \E k \in 1..Len(admin.products.value) :
          admin.products.value[k]._id = EditingId

\* fetchProducts resumes: setProducts(data); setLoading(false)
AdminProductsArrive(data) ==
    /\ page = "admin"
    /\ ~crashed
    /\ admin.loading
    /\ admin' = [admin EXCEPT !.products = data, !.loading = FALSE]
    /\ crashed' = (data.kind # "array")
    /\ last' = Op("fetchProducts", data.kind, 0, Null, 0)
    /\ UNCHANGED <<cart, run, page, showCheckout, toast, requests, timers>>
    /\ UNCHANGED <<storage, pending, reloaded, builder, now, shop>>

\* fetchProducts: the catch block
AdminProductsFail ==
    /\ page = "admin"
    /\ ~crashed
    /\ admin.loading
    /\ admin' = [admin EXCEPT !.toast = ToastLoadFailed, !.loading = FALSE]
    /\ last' = [Op("fetchProducts", "rejects", 0, Null, 0) EXCEPT !.logged = TRUE]
    /\ UNCHANGED <<cart, crashed, run, page, showCheckout, toast, requests, timers>>
    /\ UNCHANGED <<storage, pending, reloaded, builder, now, shop>>

\* Edit on a row that is not in edit mode: setEditingProduct({ ...product })
handleEdit(k) ==
    /\ page = "admin"
    /\ ~crashed
    /\ TableShown
    /\ k \in 1..Len(admin.products.value)
    /\ EditingId # admin.products.value[k]._id
    /\ admin' = [admin EXCEPT !.editingProduct = admin.products.value[k]]
    /\ last' = Op("handleEdit", admin.products.value[k]._id, 0, Null, k - 1)
    /\ UNCHANGED <<cart, crashed, run, page, showCheckout, toast, requests, timers>>
    /\ UNCHANGED <<storage, pending, reloaded, builder, now, shop>>

\* Cancel: setEditingProduct(null)
handleCancel ==
    /\ page = "admin"
    /\ ~crashed
    /\ EditedRowShown
    /\ admin' = [admin EXCEPT !.editingProduct = Null]
    /\ last' = Op("handleCancel", admin.editingProduct._id, 0, Null, 0)
    /\ UNCHANGED <<cart, crashed, run, page, showCheckout, toast, requests, timers>>
    /\ UNCHANGED <<storage, pending, reloaded, builder, now, shop>>

\* the price input and the stock checkbox:
\* setEditingProduct({ ...editingProduct, [field]: value })
handleChange(field, value) ==
    /\ page = "admin"
    /\ ~crashed
    /\ EditedRowShown
    /\ admin' = [admin EXCEPT !.editingProduct[field] = value]
    /\ last' = Op("handleChange", admin.editingProduct._id, 0, Null, 0)
    /\ UNCHANGED <<cart, crashed, run, page, showCheckout, toast, requests, timers>>
    /\ UNCHANGED <<storage, pending, reloaded, builder, now, shop>>

\* Save runs handleSave up to its await: PUT /api/products/:id with
\* { price, inStock }
handleSave ==
    /\ page = "admin"
    /\ ~crashed
    /\ EditedRowShown
    /\ Len(admin.saves) < MaxInFlight
    /\ admin.pressed < MaxSaves
    /\ admin' = [admin EXCEPT !.pressed = @ + 1, !.saves =
                   Append(@, [id |-> admin.editingProduct._id,
                              name |-> admin.editingProduct.name,
                              price |-> admin.editingProduct.price,
                              inStock |-> admin.editingProduct.inStock,
                              products |-> admin.products])]
    /\ last' = Op("handleSave", admin.editingProduct._id, 0, Null, 0)
    /\ UNCHANGED <<cart, crashed, run, page, showCheckout, toast, requests, timers>>
    /\ UNCHANGED <<storage, pending, reloaded, builder, now, shop>>

\* the product the server answers a PUT with: the stored product with the
\* price and inStock of the request body
ServerUpdated(save) ==
    LET stored == CHOOSE p \in {AdminCatalog[k] : k \in 1..Len(AdminCatalog)} :
                     p._id = save.id
    IN [stored EXCEPT !.price = save.price, !.inStock = save.inStock]

\* products.map(p => p._id === updatedProduct._id ? updatedProduct : p)
replaceProduct(products, updatedProduct) ==
    [i \in 1..Len(products) |->
        IF products[i]._id = updatedProduct._id THEN updatedProduct ELSE products[i]]

\* handleSave resumes with response.ok: the list its closure holds, with
\* the returned product put in, becomes the list displayed
SaveOk(k) ==
    /\ page = "admin"
    /\ ~crashed
    /\ k \in 1..Len(admin.saves)
    /\ LET save == admin.saves[k]
           updatedProduct == ServerUpdated(save)
       IN /\ admin' = [admin EXCEPT
                         !.saves = Drop(@, k),
                         !.products = List(replaceProduct(save.products.value,
                                                          updatedProduct)),
                         !.toast = ToastUpdated(save.name),
                         !.editingProduct = Null,
                         !.returned[save.id] = updatedProduct]
          /\ last' = Op("saveOk", save.id, 0, Null, 0)
    /\ UNCHANGED <<cart, crashed, run, page, showCheckout, toast, requests, timers>>
    /\ UNCHANGED <<storage, pending, reloaded, builder, now, shop>>

\* handleSave resumes with a response that is not ok
SaveNotOk(k) ==
    /\ page = "admin"
    /\ ~crashed
    /\ k \in 1..Len(admin.saves)
    /\ admin' = [admin EXCEPT !.saves = Drop(@, k), !.toast = ToastUpdateFailed]
    /\ last' = Op("saveNotOk", admin.saves[k].id, 0, Null, 0)
    /\ UNCHANGED <<cart, crashed, run, page, showCheckout, toast, requests, timers>>
    /\ UNCHANGED <<storage, pending, reloaded, builder, now, shop>>

\* fetch rejects: the catch block of handleSave
SaveRejects(k) ==
    /\ page = "admin"
    /\ ~crashed
    /\ k \in 1..Len(admin.saves)
    /\ admin' = [admin EXCEPT !.saves = Drop(@, k), !.toast = ToastUpdateError]
    /\ last' = [Op("saveRejects", admin.saves[k].id, 0, Null, 0)
                   EXCEPT !.logged = TRUE]
    /\ UNCHANGED <<cart, crashed, run, page, showCheckout, toast, requests, timers>>
    /\ UNCHANGED <<storage, pending, reloaded, builder, now, shop>>

\* the Toast calls onClose
AdminToastClose ==
    /\ page = "admin"
    /\ ~crashed
    /\ ~admin.loading
    /\ admin.toast # NoToast
    /\ admin' = [admin EXCEPT !.toast = NoToast]
    /\ last' = Op("toastClose", NoId, 0, Null, 0)
    /\ UNCHANGED <<cart, crashed, run, page, showCheckout, toast, requests, timers>>
    /\ UNCHANGED <<storage, pending, reloaded, builder, now, shop>>

\* fetchProducts of an Admin that is gone resumes: its setters change
\* nothing; the catch block still logs
AbandonedAdminProducts(answer) ==
    /\ admin.orphanedFetches > 0
    /\ admin' = [admin EXCEPT !.orphanedFetches = @ - 1]
    /\ last' = [Op("fetchProducts", answer, 0, Null, 0)
                   EXCEPT !.live = FALSE, !.logged = (answer = "rejects")]
    /\ UNCHANGED <<cart, crashed, run, page, showCheckout, toast, requests, timers>>
    /\ UNCHANGED <<storage, pending, reloaded, builder, now, shop>>

\* handleSave of an Admin that is gone resumes (ok, not ok or rejecting):
\* its setters change nothing; the catch block still logs
AbandonedSave(answer) ==
    /\ admin.orphanedSaves > 0
    /\ admin' = [admin EXCEPT !.orphanedSaves = @ - 1]
    /\ last' = [Op("abandonedSave", answer, 0, Null, 0)
                   EXCEPT !.live = FALSE, !.logged = (answer = "rejects")]
    /\ UNCHANGED <<cart, crashed, run, page, showCheckout, toast, requests, timers>>
    /\ UNCHANGED <<storage, pending, reloaded, builder, now, shop>>

\* what GET /api/products can answer the Admin page with
AdminBodies == {List(AdminCatalog), ErrorBody}

NextAdmin ==
    \/ \E data \in AdminBodies : AdminProductsArrive(data)
    \/ AdminProductsFail
    \/ \E k \in 1..Len(AdminCatalog) : handleEdit(k)
    \/ handleCancel
    \/ handleChange("price", TypedPrice)
    \/ \E checked \in BOOLEAN : handleChange("inStock", checked)
    \/ handleSave
    \/ \E k \in 1..MaxInFlight : SaveOk(k)
    \/ \E k \in 1..MaxInFlight : SaveNotOk(k)
    \/ \E k \in 1..MaxInFlight : SaveRejects(k)
    \/ AdminToastClose
    \/ \E p \in {"home", "admin"} : Navigate(p)
    \/ \E answer \in Answers : AbandonedAdminProducts(answer)
    \/ \E answer \in {"ok", "not ok", "rejects"} : AbandonedSave(answer)

SpecAdmin == InitAdmin /\ [][NextAdmin]_vars

(***************************************************************************)
(* The coffee builder: four option states, each changed by its own         *)
(* controls.  last.quantity keeps the value the option had when the        *)
(* control was pressed.                                                    *)
(***************************************************************************)
MinSugar == 0

MaxSugar == 5

MinCoffee == 1

MaxCoffee == 4

MinChocolate == 0

MaxChocolate == 5

\* the three radio inputs name="milk"
Milks == {"none", "regular", "oat"}

MathMax(a, b) == IF a >= b THEN a ELSE b

MathMin(a, b) == IF a <= b THEN a ELSE b

InitBuilder == page = "builder" /\ InitCommon

\* setSugar(Math.max(0, sugar - 1))
SugarMinus ==
    /\ page = "builder"
    /\ builder' = [builder EXCEPT !.sugar = MathMax(MinSugar, builder.sugar - 1)]
    /\ last' = Op("sugarMinus", NoId, builder.sugar, Null, 0)
    /\ UNCHANGED <<cart, crashed, run, page, showCheckout, toast, requests, timers>>
    /\ UNCHANGED <<storage, pending, reloaded>>
    /\ UNCHANGED <<now, shop, admin>>

\* a + button that adds without the upper limit
SugarPlus_Unclamped ==
    /\ page = "builder"
    /\ builder' = [builder EXCEPT !.sugar = builder.sugar + 1]
    /\ last' = Op("sugarPlus", NoId, builder.sugar, Null, 0)
    /\ UNCHANGED <<cart, crashed, run, page, showCheckout, toast, requests, timers>>
    /\ UNCHANGED <<storage, pending, reloaded>>
    /\ UNCHANGED <<now, shop, admin>>

\* setSugar(Math.min(5, sugar + 1))
SugarPlus ==
    /\ page = "builder"
    /\ builder' = [builder EXCEPT !.sugar = MathMin(MaxSugar, builder.sugar + 1)]
    /\ last' = Op("sugarPlus", NoId, builder.sugar, Null, 0)
    /\ UNCHANGED <<cart, crashed, run, page, showCheckout, toast, requests, timers>>
    /\ UNCHANGED <<storage, pending, reloaded>>
    /\ UNCHANGED <<now, shop, admin>>

\* onChange of a milk radio: setMilk(e.target.value)
SelectMilk(value) ==
    /\ page = "builder"
    /\ builder' = [builder EXCEPT !.milk = value]
    /\ last' = Op("selectMilk", NoId, 0, Null, 0)
    /\ UNCHANGED <<cart, crashed, run, page, showCheckout, toast, requests, timers>>
    /\ UNCHANGED <<storage, pending, reloaded>>
    /\ UNCHANGED <<now, shop, admin>>

\* setCoffee(Math.max(1, coffee - 1))
CoffeeMinus ==
    /\ page = "builder"
    /\ builder' = [builder EXCEPT !.coffee = MathMax(MinCoffee, builder.coffee - 1)]
    /\ last' = Op("coffeeMinus", NoId, builder.coffee, Null, 0)
    /\ UNCHANGED <<cart, crashed, run, page, showCheckout, toast, requests, timers>>
    /\ UNCHANGED <<storage, pending, reloaded>>
    /\ UNCHANGED <<now, shop, admin>>

\* setCoffee(Math.min(4, coffee + 1))
CoffeePlus ==
    /\ page = "builder"
    /\ builder' = [builder EXCEPT !.coffee = MathMin(MaxCoffee, builder.coffee + 1)]
    /\ last' = Op("coffeePlus", NoId, builder.coffee, Null, 0)
    /\ UNCHANGED <<cart, crashed, run, page, showCheckout, toast, requests, timers>>
    /\ UNCHANGED <<storage, pending, reloaded>>
    /\ UNCHANGED <<now, shop, admin>>

\* setChocolate(Math.max(0, chocolate - 1))
ChocolateMinus ==
    /\ page = "builder"
    /\ builder' = [builder EXCEPT
                     !.chocolate = MathMax(MinChocolate, builder.chocolate - 1)]
    /\ last' = Op("chocolateMinus", NoId, builder.chocolate, Null, 0)
    /\ UNCHANGED <<cart, crashed, run, page, showCheckout, toast, requests, timers>>
    /\ UNCHANGED <<storage, pending, reloaded>>
    /\ UNCHANGED <<now, shop, admin>>

\* setChocolate(Math.min(5, chocolate + 1))
ChocolatePlus ==
    /\ page = "builder"
    /\ builder' = [builder EXCEPT
                     !.chocolate = MathMin(MaxChocolate, builder.chocolate + 1)]
    /\ last' = Op("chocolatePlus", NoId, builder.chocolate, Null, 0)
    /\ UNCHANGED <<cart, crashed, run, page, showCheckout, toast, requests, timers>>
    /\ UNCHANGED <<storage, pending, reloaded>>
    /\ UNCHANGED <<now, shop, admin>>

NextBuilder ==
    \/ SugarMinus
    \/ SugarPlus
    \/ \E value \in Milks : SelectMilk(value)
    \/ CoffeeMinus
    \/ CoffeePlus
    \/ ChocolateMinus
    \/ ChocolatePlus
    \/ BuilderAddToCart

SpecBuilder == InitBuilder /\ [][NextBuilder]_vars

(***************************************************************************)
(* Finalizing custom coffees.  The builder is opened, options are chosen,  *)
(* Add to Cart is pressed and the builder is opened again, while the clock *)
(* behind Date.now() moves on at its own pace: a millisecond clock, a      *)
(* clock with reduced resolution or a clock held by a test returns the     *)
(* same value to calls that follow each other.                             *)
(***************************************************************************)
InitFinalize == page = "builder" /\ InitCommon

\* Date.now() returns a later value from here on
Tick ==
    /\ now < MaxClock
    /\ now' = now + 1
    /\ UNCHANGED <<cart, crashed, last, run, page, showCheckout, toast, requests, timers>>
    /\ UNCHANGED <<storage, pending, reloaded, builder, shop, admin>>

NextFinalize ==
    \/ SugarPlus
    \/ \E value \in Milks : SelectMilk(value)
    \/ BuilderAddToCart
    \/ \E p \in {"builder", "cart"} : Navigate(p)
    \/ Tick

SpecFinalize == InitFinalize /\ [][NextFinalize]_vars

(***************************************************************************)
(* The application: the NavBar, the handlers of Shop, CoffeeBuilder and     *)
(* Cart, the clock, and the fetch Admin issues when it mounts.  The edit    *)
(* handlers of Admin do not touch what the other pages show; they are       *)
(* explored by SpecAdmin.                                                   *)
(***************************************************************************)
\* the add-ons chosen in the builder: spoons, extra shots, pumps, a milk
AddOns(b) ==
    b.sugar + (b.coffee - 1) + b.chocolate + (IF b.milk = "none" THEN 0 ELSE 1)

Next ==
    \/ \E p \in Pages : Navigate(p)
    \/ \E data \in {List(ShopCatalog), ErrorBody} : ProductsArrive(data)
    \/ ProductsFail
    \/ \E data \in {List(ShopCategories), ErrorBody} : CategoriesArrive(data)
    \/ CategoriesFail
    \/ \E category \in CategoryNames : SelectCategory(category)
    \/ \E answer \in Answers : AbandonedProducts(answer)
    \/ \E answer \in Answers : AbandonedCategories(answer)
    \/ \E product \in ShopProducts : ShopAddToCart(product)
    \/ SugarMinus
    \/ SugarPlus /\ AddOns(builder') <= MaxAddOns
    \/ \E value \in Milks : SelectMilk(value) /\ AddOns(builder') <= MaxAddOns
    \/ CoffeeMinus
    \/ CoffeePlus /\ AddOns(builder') <= MaxAddOns
    \/ ChocolateMinus
    \/ ChocolatePlus /\ AddOns(builder') <= MaxAddOns
    \/ Tick
    \/ BuilderAddToCart
    \/ \E index \in 0..(MaxCartLen - 1), delta \in {-1, 1} : QuantityButton(index, delta)
    \/ \E index \in 0..(MaxCartLen - 1) : RemoveButton(index)
    \/ ClearCartButton
    \/ ProceedToCheckout
    \/ CancelCheckout
    \/ handleCheckout
    \/ \E k \in 1..MaxInFlight : ResponseOk(k)
    \/ \E k \in 1..MaxInFlight : ResponseNotOk(k)
    \/ \E k \in 1..MaxInFlight : FetchRejects(k)
    \/ TimerFires
    \/ ToastClose
    \/ \E data \in AdminBodies : AdminProductsArrive(data)
    \/ AdminProductsFail
    \/ \E answer \in Answers : AbandonedAdminProducts(answer)
    \/ AdminToastClose

Spec == Init /\ [][Next]_vars

(***************************************************************************)
(* The application in front of a server that answers every request with    *)
(* success: orders are accepted, the catalog requests bring their lists.    *)
(* Every order request is answered and every timer fires: the oldest        *)
(* pending one is never postponed for ever.                                 *)
(***************************************************************************)
NextOk ==
    \/ \E p \in Pages : Navigate(p)
    \/ ProductsArrive(List(ShopCatalog))
    \/ CategoriesArrive(List(ShopCategories))
    \/ \E category \in CategoryNames : SelectCategory(category)
    \/ AbandonedProducts("array")
    \/ AbandonedCategories("array")
    \/ \E product \in ShopProducts : ShopAddToCart(product)
    \/ SugarMinus
    \/ SugarPlus /\ AddOns(builder') <= MaxAddOns
    \/ \E value \in Milks : SelectMilk(value) /\ AddOns(builder') <= MaxAddOns
    \/ CoffeeMinus
    \/ CoffeePlus /\ AddOns(builder') <= MaxAddOns
    \/ ChocolateMinus
    \/ ChocolatePlus /\ AddOns(builder') <= MaxAddOns
    \/ Tick
    \/ BuilderAddToCart
    \/ \E index \in 0..(MaxCartLen - 1), delta \in {-1, 1} : QuantityButton(index, delta)
    \/ \E index \in 0..(MaxCartLen - 1) : RemoveButton(index)
    \/ ClearCartButton
    \/ ProceedToCheckout
    \/ CancelCheckout
    \/ handleCheckout
    \/ \E k \in 1..MaxInFlight : ResponseOk(k)
    \/ TimerFires
    \/ ToastClose
    \/ AdminProductsArrive(List(AdminCatalog))
    \/ AbandonedAdminProducts("array")

FairSpecOk ==
    /\ Init
    /\ [][NextOk]_vars
    /\ WF_vars(ResponseOk(1))
    /\ WF_vars(TimerFires)

(***************************************************************************)
(* Properties of the cart store.                                           *)
(***************************************************************************)
EntriesWithId(c, id) == {k \in 1..Len(c) : c[k]._id = id}

\* an entry lacks a customization when its customCoffee is falsy
Lacks(item) == ~Truthy(item.customCoffee)

RECURSIVE SigmaOver(_, _)
SigmaOver(S, f) ==
    IF S = {} THEN 0
    ELSE LET k == CHOOSE x \in S : TRUE
         IN f[k] + SigmaOver(S \ {k}, f)

\* the sum over all entries of price x quantity
SumOfLines(c) == SigmaOver(1..Len(c), [k \in 1..Len(c) |-> c[k].price * c[k].quantity])

\* the sum over all entries of quantity
SumOfQuantities(c) == SigmaOver(1..Len(c), [k \in 1..Len(c) |-> c[k].quantity])

\* c without the entry at 0-based position index
Without(c, index) == SubSeq(c, 1, index) \o SubSeq(c, index + 2, Len(c))

\* C1: starting from a cart with no entry for product id P, after any
\* sequence of addToCart(P, q) calls without customization the cart holds
\* exactly one entry with id P, whose quantity is the sum of the q's.
C1_PlainAddsSumIntoOneEntry ==
    run.id # NoId =>
        /\ Cardinality(EntriesWithId(cart, run.id)) = 1
        /\ \A k \in EntriesWithId(cart, run.id) : cart[k].quantity = run.sum

\* a run of at least two calls for one id, next to an entry of another id
C1_Witness ==
    /\ run.id # NoId
    /\ run.calls >= 2
    /\ Len(cart) = 2

\* C2: an addToCart call with a (truthy) customization appends: the cart
\* grows by exactly one entry and every entry that was there is unchanged.
C2_CustomAddAppends ==
    [][ (last'.op = "addToCart" /\ last'.customCoffee = CoffeeConfig) =>
            /\ Len(cart') = Len(cart) + 1
            /\ \A k \in 1..Len(cart) : cart'[k] = cart[k]
            /\ cart'[Len(cart')]._id = last'.id
            /\ cart'[Len(cart')].quantity = last'.quantity
            /\ cart'[Len(cart')].customCoffee = last'.customCoffee ]_vars

\* a customized entry was added next to an entry with the same id and the
\* same customization content
C2_Witness ==
    /\ last.op = "addToCart"
    /\ last.customCoffee = CoffeeConfig
    /\ last.prevLen = 1
    /\ Len(cart) = 2
    /\ cart[1]._id = cart[2]._id
    /\ cart[1].customCoffee = CoffeeConfig
    /\ cart[2].customCoffee = CoffeeConfig

\* C3: no two entries share a product id and both lack a customization.
C3_NoDuplicatePlainEntries ==
    \A j, k \in 1..Len(cart) :
        (j # k /\ cart[j]._id = cart[k]._id) => ~(Lacks(cart[j]) /\ Lacks(cart[k]))

\* a plain add merged into the plain entry standing next to a customized
\* entry of the same id
C3_Witness ==
    /\ last.op = "addToCart"
    /\ last.customCoffee = Null
    /\ last.prevLen = 2
    /\ Len(cart) = 2
    /\ cart[1]._id = cart[2]._id
    /\ cart[1]._id = last.id
    /\ \E k \in 1..2 : Lacks(cart[k]) /\ cart[k].quantity >= 2

RemovalOp(op) ==
    \/ op.op = "removeFromCart"
    \/ op.op = "updateQuantity" /\ op.quantity <= 0
    \/ op.op = "clearCart"

\* C4: every entry has a quantity >= 1; an updateQuantity to 0 or below
\* removes the entry instead of storing the quantity; an entry disappears
\* only through removeFromCart, updateQuantity <= 0 or clearCart.
C4_QuantityAtLeastOne ==
    [][ /\ \A k \in 1..Len(cart') : cart'[k].quantity >= 1
        /\ (last'.op = "updateQuantity" /\ last'.quantity <= 0
              /\ ValidIndex(cart, last'.index)) => Len(cart') = Len(cart) - 1
        /\ Len(cart') < Len(cart) => RemovalOp(last') ]_vars

\* updateQuantity(0, q) with q <= 0 took the first of two entries away
C4_Witness ==
    /\ last.op = "updateQuantity"
    /\ last.quantity <= 0
    /\ last.index = 0
    /\ last.prevLen = 2
    /\ Len(cart) = 1

\* C5: getCartTotal() is the sum of price x quantity and getCartCount() the
\* sum of quantity, which is not the number of entries once a quantity
\* exceeds 1.
C5_TotalAndCount ==
    /\ getCartTotal(cart) = SumOfLines(cart)
    /\ getCartCount(cart) = SumOfQuantities(cart)
    /\ (\E k \in 1..Len(cart) : cart[k].quantity > 1) => getCartCount(cart) # Len(cart)

\* two entries, one raised to quantity 3 by updateQuantity: 399 x 3 + 299
C5_Witness ==
    /\ last.op = "updateQuantity"
    /\ Len(cart) = 2
    /\ cart[1].quantity = 3
    /\ cart[2].quantity = 1
    /\ cart[1].price = 399
    /\ cart[2].price = 299
    /\ getCartTotal(cart) = 1496
    /\ getCartCount(cart) = 4

\* C6: for a valid index, updateQuantity(index, q) with q <= 0 yields the
\* cart removeFromCart(index) yields: one entry fewer, the entry at index
\* gone, the others in their order.
C6_UpdateToZeroIsRemove ==
    [][ (last'.op = "updateQuantity" /\ last'.quantity <= 0
           /\ ValidIndex(cart, last'.index)) =>
            /\ cart' = removeFromCartUpdater(cart, last'.index)
            /\ Len(cart') = Len(cart) - 1
            /\ cart' = Without(cart, last'.index) ]_vars

\* updateQuantity(1, q) with q <= 0 took the second of two entries away
C6_Witness ==
    /\ last.op = "updateQuantity"
    /\ last.quantity <= 0
    /\ last.index = 1
    /\ last.prevLen = 2
    /\ Len(cart) = 1

(***************************************************************************)
(* Properties of the checkout workflow.                                    *)
(***************************************************************************)
\* the confirmation panel (Confirm Your Order) is on screen
ConfirmPanelShown == CartShown /\ showCheckout

\* C7: at most one order-creation request is in flight at any time.
C7_SingleRequestInFlight == Len(requests) <= 1

\* C8: a failed submission (response not ok, or fetch rejecting) leaves the
\* cart and the confirmation view as they are, and the two failure classes
\* put different messages in the toast.
C8_FailureLeavesCartAndView ==
    [][ (last'.op \in {"responseNotOk", "fetchRejects"}) =>
            /\ cart' = cart
            /\ showCheckout' = showCheckout
            /\ page' = page
            /\ timers' = timers
            /\ (last'.live /\ last'.op = "responseNotOk") => toast' = ToastFailed
            /\ (last'.live /\ last'.op = "fetchRejects") => toast' = ToastError
            /\ ToastFailed # ToastError ]_vars

\* the server refused an order: the panel is still open over the cart
C8_Witness ==
    /\ last.op = "responseNotOk"
    /\ last.live
    /\ toast = ToastFailed
    /\ ConfirmPanelShown
    /\ Len(cart) = 2

\* the delayed clear has run: the cart is empty, no confirmation panel is
\* on screen, and the view that placed the order has showCheckout reset
ClearedAfterSuccess ==
    /\ last.op = "timerFires"
    /\ cart = << >>
    /\ ~ConfirmPanelShown
    /\ last.live => ~showCheckout

\* C9: an order placed from a non-empty cart at an endpoint that answers
\* with success leads to the cart being empty and the confirmation panel
\* closed.
C9_SuccessLeadsToEmptyCart == (requests # << >>) ~> ClearedAfterSuccess

\* the clear of an order placed by the view on screen has run
C9_Witness ==
    /\ ClearedAfterSuccess
    /\ last.live
    /\ page = "cart"
    /\ toast = ToastSuccess

\* C10: the posted order has one item per cart entry, in cart order, with
\* the entry's product id, name, price, quantity and customization (when
\* present), and its totalAmount is the sum of price x quantity over them.
C10_OrderIsSnapshotOfCart ==
    last.op = "handleCheckout" =>
        LET items == last.body.items
        IN /\ Len(items) = Len(cart)
           /\ \A k \in 1..Len(cart) :
                 /\ items[k].productId = cart[k]._id
                 /\ items[k].name = cart[k].name
                 /\ items[k].price = cart[k].price
                 /\ items[k].quantity = cart[k].quantity
                 /\ items[k].customCoffee =
                       IF Lacks(cart[k]) THEN Undefined ELSE cart[k].customCoffee
           /\ last.body.totalAmount =
                 SigmaOver(1..Len(items),
                           [k \in 1..Len(items) |-> items[k].price * items[k].quantity])

\* an order of a plain entry of quantity 2 and a custom coffee was posted
C10_Witness ==
    /\ last.op = "handleCheckout"
    /\ Len(last.body.items) = 2
    /\ last.body.items[1].quantity = 2
    /\ last.body.items[1].customCoffee = Undefined
    /\ last.body.items[2].customCoffee = coffeeConfig(BuilderDefaults)
    /\ last.body.totalAmount = 1148

(***************************************************************************)
(* Properties of the store's edge cases.                                   *)
(***************************************************************************)
\* C18: addToCart with an empty customization object behaves like addToCart
\* with null: when an entry of the same product id without customization
\* exists, that entry's quantity grows by the quantity added and no entry
\* is appended.
C18_EmptyCustomizationMerges ==
    [][ (/\ last'.op = "addToCart"
         /\ last'.customCoffee = EmptyObj
         /\ \E k \in 1..Len(cart) : cart[k]._id = last'.id /\ Lacks(cart[k]))
        => cart' = addToCartUpdater(cart, CHOOSE p \in Products : p._id = last'.id,
                                    last'.quantity, Null) ]_vars

\* C19: removeFromCart(index) with an index that addresses no entry does not
\* raise and leaves the cart as it was: same entries, order and quantities.
C19_RemoveOutOfRangeIsNoOp ==
    [][ (last'.op = "removeFromCart" /\ ~ValidIndex(cart, last'.index))
        => cart' = cart /\ ~crashed' ]_vars

\* removeFromCart(-1) and removeFromCart(2) ran on a cart of two entries
C19_Witness ==
    /\ last.op = "removeFromCart"
    /\ last.index \in {-1, 2}
    /\ last.prevLen = 2
    /\ Len(cart) = 2
    /\ ~crashed

(***************************************************************************)
(* Properties of the Cart page around the checkout.                        *)
(***************************************************************************)
\* the Cart page renders its empty branch: "Your cart is empty"
EmptyMessageShown == page = "cart" /\ cart = << >>

\* C14: whenever the cart has no entries checkout is unreachable: the Cart
\* page shows only the empty-state message, Proceed to Checkout, Place
\* Order and Cancel cannot be pressed, and no order is posted with an empty
\* item list.
C14_EmptyCartNoCheckout ==
    /\ cart = << >> =>
          /\ ~CartShown
          /\ page = "cart" => EmptyMessageShown
          /\ ~ENABLED ProceedToCheckout
          /\ ~ENABLED handleCheckout
          /\ ~ENABLED CancelCheckout
    /\ last.op = "handleCheckout" => last.body.items # << >>

\* the last entry was removed while the confirmation panel was open: the
\* empty message replaces the panel although showCheckout is still true
C14_Witness ==
    /\ EmptyMessageShown
    /\ showCheckout
    /\ last.op = "removeFromCart"
    /\ last.prevLen = 1

\* C15: while the order summary is shown and the order is neither placed
\* nor cancelled, no step changes the cart (entries, quantities, total).
C15_CartFrozenWhileConfirming ==
    [][ (ConfirmPanelShown /\ requests = << >> /\ timers = << >>)
        => cart' = cart ]_vars

\* C16: every failed submission, the response that is not ok as well as
\* the rejected fetch, is written to the diagnostic log, and the handler
\* does not raise.
C16_EveryFailureLogged ==
    last.op \in {"responseNotOk", "fetchRejects"} => last.logged /\ ~crashed

\* C17: once the user has left the Cart page with a request pending, what
\* the request leads to later (response, rejection, the delayed clear)
\* changes neither the cart nor anything else the client shows or keeps.
C17_AbandonedCallChangesNothing ==
    [][ (/\ last'.op \in {"responseOk", "responseNotOk", "fetchRejects", "timerFires"}
         /\ ~last'.live)
        => UNCHANGED <<cart, storage, page, showCheckout, toast>> ]_vars

(***************************************************************************)
(* Properties of the coffee builder.                                       *)
(***************************************************************************)
\* C20: after any sequence of +, - and milk selections from the initial
\* state every option is inside its range: sugar 0..5, coffee shots 1..4,
\* chocolate pumps 0..5, milk one of none, regular, oat.
C20_OptionsInRange ==
    /\ builder.sugar \in 0..5
    /\ builder.coffee \in 1..4
    /\ builder.chocolate \in 0..5
    /\ builder.milk \in {"none", "regular", "oat"}

\* + was pressed on sugar at its upper limit, the other options at theirs
C20_Witness ==
    /\ last.op = "sugarPlus"
    /\ last.quantity = 5
    /\ builder = [sugar |-> 5, milk |-> "oat", coffee |-> 4, chocolate |-> 5]

(***************************************************************************)
(* Properties of the persistence.                                          *)
(***************************************************************************)
\* C11: once a mutation has been processed the slot holds the
\* serialization of the cart in memory, and every write to the slot puts
\* there the serialization of the cart of that moment, in the step of the
\* mutation that caused it.
C11_WriteThrough ==
    /\ [](Running => storage = JSONstringify(cart))
    /\ [][storage' # storage => storage' = JSONstringify(cart')]_vars

\* updateQuantity changed a quantity in a cart of two entries, one of them
\* customized, and the slot holds that cart
C11_Witness ==
    /\ last.op = "updateQuantity"
    /\ Running
    /\ Len(cart) = 2
    /\ cart[1].quantity = 2
    /\ cart[2].customCoffee = CoffeeConfig
    /\ storage = JSONstringify(cart)
    /\ storage.elems[1] = itemToJSON(cart[1])

\* C12: a running session that is reloaded comes back, with the render
\* after its mount effects, to the cart it held: the same entries in the
\* same order with their ids, names, prices, quantities and
\* customizations.
C12_RoundTrip ==
    [][ /\ (last'.op = "reload" /\ Running) => ~crashed' /\ pending' # NoPending
        /\ (last'.op = "rehydrate" /\ last.op = "reload")
              => cart' = reloaded /\ ~crashed' ]_vars

\* a cart of a plain and a customized entry came back from the slot
C12_Witness ==
    /\ last.op = "rehydrate"
    /\ Running
    /\ Len(cart) = 2
    /\ cart[1].customCoffee = Null
    /\ cart[1].quantity = 2
    /\ cart[2].customCoffee = CoffeeConfig

\* C13: a session that starts with the slot absent or holding what is no
\* serialized cart has an empty cart and keeps running.
C13_BadSlotStartsEmpty ==
    (/\ last.op \in {"mount", "reload", "rehydrate"}
     /\ last.id \in {"absent", "empty string", "syntax error", "null"})
    => cart = << >> /\ ~crashed

\* C29: updateQuantity(index, q) with q > 0 and an index that addresses no
\* entry does not raise and leaves the cart as it was.
C29_UpdateOutOfRangeIsNoOp ==
    [][ (/\ last'.op = "updateQuantity"
         /\ last'.quantity > 0
         /\ ~ValidIndex(cart, last'.index))
        => cart' = cart /\ ~crashed' ]_vars

(***************************************************************************)
(* Properties of the delayed clear and of the mount.                       *)
(***************************************************************************)
\* C26: the delayed clear removes only what was ordered: an entry added
\* after the success response, while the clear is still due, is in the
\* cart after the clear has run.
C26_ClearKeepsLaterAdditions ==
    [][ (/\ last.op = "addToCart"
         /\ timers # << >>
         /\ last'.op = "timerFires")
        => \E k \in 1..Len(cart') : cart'[k]._id = last.id ]_vars

\* C28: from the mount to the first mutation the slot holds the cart that
\* was stored before the mount: while the parsed cart waits for its
\* render, the slot still is its serialization.
C28_MountKeepsSlot ==
    (pending.kind = "array" /\ pending.value # << >>)
    => storage = JSONstringify(pending.value)

\* C30: the updaters of addToCart and updateQuantity leave the previous
\* state alone, so however often the framework invokes one with the same
\* previous state the cart rendered is the one a single invocation
\* yields: a merge adds exactly the quantity asked for.
C30_UpdatersArePure ==
    [][ /\ last'.op = "addToCart" =>
              cart' = addToCartUpdater(cart, CHOOSE p \in Products : p._id = last'.id,
                                       last'.quantity, last'.customCoffee)
        /\ (last'.op = "updateQuantity" /\ ~crashed') =>
              cart' = updateQuantityUpdater(cart, last'.index, last'.quantity) ]_vars

(***************************************************************************)
(* Properties of the Shop page's catalog.                                  *)
(***************************************************************************)
\* the positions of the fetched list whose product the selection admits
Admitted(fetched, selected) ==
    {k \in 1..Len(fetched) : selected = "All" \/ fetched[k].category = selected}

\* C23: the list displayed is determined by the fetched list and the
\* selected category: all of it for "All", otherwise exactly the products
\* whose category equals the selection, in the order fetched; selecting a
\* category leaves the fetched list as it is.
C23_FilterIsExact ==
    /\ [](~ShopRenderThrows(shop) =>
            LET fetched == shop.products.value
                shown == filteredProducts(fetched, shop.selectedCategory)
                keep == Admitted(fetched, shop.selectedCategory)
            IN /\ Len(shown) = Cardinality(keep)
               /\ \A k \in keep :
                     shown[Cardinality({j \in keep : j < k}) + 1] = fetched[k]
               /\ shop.selectedCategory = "All" => shown = fetched)
    /\ [][last'.op = "selectCategory" => shop'.products = shop.products]_vars

\* Coffee was selected on the three fetched products: two are displayed
C23_Witness ==
    /\ last.op = "selectCategory"
    /\ shop.selectedCategory = "Coffee"
    /\ shop.products = List(ShopCatalog)
    /\ filteredProducts(shop.products.value, shop.selectedCategory)
          = << ShopCatalog[1], ShopCatalog[2] >>

\* C24: a catalog fetch that fails, by rejecting or by bringing no list, is
\* logged and the page keeps running.
C24_FetchFailureIsLogged ==
    (last.op \in {"fetchProducts", "fetchCategories"} /\ last.id # "array")
    => last.logged /\ ~crashed

(***************************************************************************)
(* Properties of the Admin page.                                           *)
(***************************************************************************)
\* C25: a save that fails leaves the displayed list and the edit mode with
\* its pending edits as they are; a save that succeeds puts the product
\* the server returned in the saved product's row, leaves every other row
\* as displayed and ends the edit mode.
C25_SaveOutcomes ==
    [][ /\ last'.op \in {"saveNotOk", "saveRejects"} =>
              /\ admin'.products = admin.products
              /\ admin'.editingProduct = admin.editingProduct
        /\ last'.op = "saveOk" =>
              /\ admin'.editingProduct = Null
              /\ Len(admin'.products.value) = Len(admin.products.value)
              /\ \A k \in 1..Len(admin.products.value) :
                    admin'.products.value[k] =
                       IF admin.products.value[k]._id = last'.id
                       THEN admin'.returned[last'.id]
                       ELSE admin.products.value[k] ]_vars

\* C27: when no save is pending any more, every product that was saved
\* successfully is displayed as the server returned it last; and the
\* response to the save of one product leaves the edit mode of another
\* product alone.
C27_AllSavesShown ==
    /\ []((admin.saves = << >> /\ TableShown) =>
            \A k \in 1..Len(admin.products.value) :
               LET id == admin.products.value[k]._id
               IN admin.returned[id] # Null =>
                     admin.products.value[k] = admin.returned[id])
    /\ [][(last'.op = "saveOk" /\ EditingId \notin {NoId, last'.id})
           => admin'.editingProduct = admin.editingProduct]_vars

\* C21: for every reachable combination of builder options the computed
\* price in cents is 350 + 25 x sugar + (0 for no milk, 50 for regular,
\* 75 for oat) + 75 x (coffee shots - 1) + 50 x chocolate pumps; it is
\* never below the 350 base price, and a + button never lowers it
C21_PriceFormula ==
    /\ [](/\ calculatePrice(builder)
               = 350 + 25 * builder.sugar
                   + (CASE builder.milk = "none" -> 0
                        [] builder.milk = "regular" -> 50
                        [] builder.milk = "oat" -> 75)
                   + 75 * (builder.coffee - 1) + 50 * builder.chocolate
          /\ calculatePrice(builder) >= 350)
    /\ [][last'.op \in {"sugarPlus", "coffeePlus", "chocolatePlus"}
            => calculatePrice(builder') >= calculatePrice(builder)]_vars

\* a third shot has just been added to a coffee with two sugars, regular
\* milk and one pump: the price is 6.50
C21_Witness ==
    /\ last.op = "coffeePlus"
    /\ last.quantity = 2
    /\ builder = [sugar |-> 2, milk |-> "regular", coffee |-> 3, chocolate |-> 1]
    /\ calculatePrice(builder) = 650

\* the entries of the cart that came from the coffee builder
CustomEntries(c) ==
    {k \in 1..Len(c) : c[k]._id \in {customCoffeeId(t) : t \in 1..MaxClock}}

\* C22: every finalize produces an id of its own: no custom coffee in the
\* cart stands for two finalize calls (quantity above one), and no two
\* custom-coffee entries of a cart share an id
C22_FinalizeIdsDistinct ==
    /\ \A k \in CustomEntries(cart) : cart[k].quantity = 1
    /\ \A j, k \in CustomEntries(cart) : j # k => cart[j]._id # cart[k]._id

====
